---- MODULE Spec2Model ----
(***************************************************************************)
(* Model of main.py: generate_calendar_csv and the __main__ handler.       *)
(* One run of the program is one behaviour: the inputs are fixed by Init,  *)
(* each statement group of the function is one action, and an exception    *)
(* is a step to pc = "raised" that unwinds the with-block on its way.      *)
(***************************************************************************)
EXTENDS Integers, Sequences, FiniteSets, TLC

VARIABLES
    entry,           \* "main": run through __main__; "direct": the function called by importing code
    start_date_str,  \* first argument, a date string
    end_date_str,    \* second argument, a date string
    output_file,     \* third argument, a path (sequence of components)
    pc,              \* position in generate_calendar_csv / __main__
    start,           \* parsed start date
    end,             \* parsed end date
    current,         \* loop cursor
    fs,              \* directories that exist on disk
    f,               \* the output file object: "unopened", "open", "closed"
    opens,           \* how many times open() succeeded
    header,          \* TRUE once writeheader wrote the header line
    rows,            \* data rows written to the file, in order
    shang_zhong_xia, \* local: decade label of the current day
    l_month,         \* local: signed lunar month from lunar.getMonth()
    is_hol,          \* local: is_holiday(current)
    is_work,         \* local
    name,            \* local: second element of get_holiday_detail(current)
    hol_name,        \* local
    exc,             \* exception in flight or caught: NoExc or [type, origin, at]
    calls,           \* number of lunar/holiday provider calls made
    console          \* messages printed: "success", "input_error", "run_error"

vars == <<entry, start_date_str, end_date_str, output_file, pc, start, end,
          current, fs, f, opens, header, rows, shang_zhong_xia, l_month,
          is_hol, is_work, name, hol_name, exc, calls, console>>

-----------------------------------------------------------------------------
(* Bounds of the model *)

\* longest accepted range, in days, among the inputs
MaxDays == 3
\* lunar.getMonth() returns a month in -MaxLunarMonth..MaxLunarMonth, never 0
MaxLunarMonth == 1

-----------------------------------------------------------------------------
(* Program constants *)

CHINESE_CALENDAR_MIN_YEAR == 2004
CHINESE_CALENDAR_MAX_YEAR == 2030

-----------------------------------------------------------------------------
(* datetime.date *)

Date(y, m, d) == [year |-> y, month |-> m, day |-> d]

NoDate == Date(0, 0, 0)

IsLeap(y) == (y % 4 = 0) /\ ((y % 100 # 0) \/ (y % 400 = 0))

DaysInMonth(y, m) ==
    IF m = 2 THEN (IF IsLeap(y) THEN 29 ELSE 28)
    ELSE IF m \in {4, 6, 9, 11} THEN 30 ELSE 31

\* date comparison: a <= b, a > b
DateLE(a, b) ==
    \/ a.year < b.year
    \/ a.year = b.year /\ a.month < b.month
    \/ a.year = b.year /\ a.month = b.month /\ a.day <= b.day

DateGT(a, b) == ~DateLE(a, b)

\* current + timedelta(days=1)
NextDay(d) ==
    IF d.day < DaysInMonth(d.year, d.month) THEN Date(d.year, d.month, d.day + 1)
    ELSE IF d.month < 12 THEN Date(d.year, d.month + 1, 1)
    ELSE Date(d.year + 1, 1, 1)

-----------------------------------------------------------------------------
(* Date strings and datetime.strptime(s, "%Y-%m-%d").date() *)

\* A date string is three numeric fields and the separator between them.
DateStr(y, m, d, sep) == [y |-> y, m |-> m, d |-> d, sep |-> sep]

\* TRUE when strptime raises ValueError: wrong separator or no such calendar day
StrptimeRaises(s) ==
    \/ s.sep # "-"
    \/ s.y < 1 \/ s.y > 9999
    \/ s.m < 1 \/ s.m > 12
    \/ s.d < 1 \/ s.d > DaysInMonth(s.y, s.m)

Strptime(s) == Date(s.y, s.m, s.d)

-----------------------------------------------------------------------------
(* os.path.dirname and os.makedirs(..., exist_ok=True) on component paths *)

\* everything before the last separator; <<>> is the empty string
Dirname(p) == SubSeq(p, 1, Len(p) - 1)

\* os.makedirs("") raises FileNotFoundError
MakedirsRaises(d) == d = <<>>

\* the directory and every missing parent are created
Makedirs(dirs, d) == dirs \cup {SubSeq(d, 1, i) : i \in 1..Len(d)}

-----------------------------------------------------------------------------
(* Exceptions *)

NoExc == [type |-> "none", origin |-> "none", at |-> "none"]

Exc(t, o, a) == [type |-> t, origin |-> o, at |-> a]

\* the classes a provider may raise
ProviderExcTypes == {"ValueError", "NotImplementedError", "KeyError"}

\* the classes a failing write may raise (UnicodeEncodeError is a ValueError)
WriteExcTypes == {"OSError", "UnicodeEncodeError"}

\* isinstance(e, ValueError)
IsValueError(t) == t \in {"ValueError", "UnicodeEncodeError"}

-----------------------------------------------------------------------------
(* Row fields computed inside the loop *)

\* decade thresholds off by one
XunOffByOne(g_day) ==
    IF 1 <= g_day /\ g_day < 10 THEN "shangxun"
    ELSE IF 10 <= g_day /\ g_day < 20 THEN "zhongxun"
    ELSE "xiaxun"

\* lines 71-76: the decade of the month
Xun(g_day) ==
    IF 1 <= g_day /\ g_day <= 10 THEN "shangxun"
    ELSE IF 11 <= g_day /\ g_day <= 20 THEN "zhongxun"
    ELSE "xiaxun"

Abs(n) == IF n < 0 THEN -n ELSE n

\* line 87: is_leap = l_month < 0
IsLeapMonth(m) == m < 0

\* the provider's signed month written as it is
LunarMonthColSigned(m) == m

\* line 127: abs(l_month)
LunarMonthCol(m) == Abs(m)

\* "shi" if b else "fou"
YesNo(b) == IF b THEN "shi" ELSE "fou"

\* Python None, as returned for a holiday without a name
NoneName == "None"

\* truth value of a str-or-None
Truthy(n) == n # NoneName /\ n # ""

\* the negation dropped from the shortcut
IsWorkOfNoNot(h, w) == IF h THEN h ELSE w

\* line 109: not is_hol if is_hol else is_workday(current)
IsWorkOf(h, w) == IF h THEN ~h ELSE w

\* line 115: name or ""
HolNameOf(n) == IF Truthy(n) THEN n ELSE ""

\* current.strftime("%Y-%m-%d")
Strftime(d) == DateStr(d.year, d.month, d.day, "-")

\* lines 118-136: the row dictionary
Row(cur, xun, lm, h, w, hn) ==
    [date |-> Strftime(cur),
     g_day |-> cur.day,
     xun |-> xun,
     lunar_month |-> LunarMonthCol(lm),
     is_leap |-> YesNo(IsLeapMonth(lm)),
     is_holiday |-> YesNo(h),
     is_workday |-> YesNo(w),
     hol_name |-> hn]

-----------------------------------------------------------------------------
(* Inputs *)

RECURSIVE Within(_, _, _)
\* e is one of the n days s, s+1, ..., s+n-1
Within(s, e, n) == IF n = 0 THEN FALSE ELSE (s = e \/ Within(NextDay(s), e, n - 1))

GoodStrs ==
    {DateStr(2003, 12, 31, "-"), DateStr(2004, 1, 1, "-"),
     DateStr(2004, 2, 28, "-"), DateStr(2004, 2, 29, "-"), DateStr(2004, 3, 1, "-"),
     DateStr(2025, 1, 10, "-"), DateStr(2025, 1, 11, "-"),
     DateStr(2025, 1, 20, "-"), DateStr(2025, 1, 21, "-"),
     DateStr(2025, 2, 28, "-"), DateStr(2025, 3, 1, "-"),
     DateStr(2025, 4, 30, "-"), DateStr(2025, 5, 1, "-"),
     DateStr(2030, 12, 31, "-"), DateStr(2031, 1, 1, "-")}

BadStrs == {DateStr(2025, 1, 1, "/"), DateStr(2025, 2, 30, "-")}

DateStrs == GoodStrs \cup BadStrs

\* pairs of strings whose range, when both parse and are in order, has at most MaxDays days
InputPairs ==
    {p \in DateStrs \X DateStrs :
        (p[1] \in GoodStrs /\ p[2] \in GoodStrs /\ DateLE(Strptime(p[1]), Strptime(p[2])))
            => Within(Strptime(p[1]), Strptime(p[2]), MaxDays)}

\* line 25: the default value of output_file
DefaultOutputFile == <<"calendar_output.csv">>

\* line 167: f"output/{start_date_str}-{end_date_str}_chinese_calendar.csv"
MainOutputFile == <<"output", "range_chinese_calendar.csv">>

DirectPaths == {DefaultOutputFile, <<"output", "cal.csv">>, <<"data", "out", "cal.csv">>}

InitialDirs == {{}, {<<"output">>}}

LunarMonths == ((-MaxLunarMonth)..MaxLunarMonth) \ {0}

HolidayNames == {NoneName, "", "GuoQing"}

-----------------------------------------------------------------------------
(* Initial state: the call is about to start *)

Init ==
    /\ entry \in {"main", "direct"}
    /\ \E p \in InputPairs : start_date_str = p[1] /\ end_date_str = p[2]
    /\ output_file \in (IF entry = "main" THEN {MainOutputFile} ELSE DirectPaths)
    /\ fs \in InitialDirs
    /\ pc = "parse"
    /\ start = NoDate /\ end = NoDate /\ current = NoDate
    /\ f = "unopened" /\ opens = 0 /\ header = FALSE /\ rows = <<>>
    /\ shang_zhong_xia = "unset" /\ l_month = 0
    /\ is_hol = FALSE /\ is_work = FALSE /\ name = "unset" /\ hol_name = "unset"
    /\ exc = NoExc /\ calls = 0 /\ console = <<>>

-----------------------------------------------------------------------------
(* generate_calendar_csv *)

\* a plain open() without the with statement: nothing closes the file
WithExitLeak(file) == file

\* an exception leaving the with-block runs the file's __exit__
WithExit(file) == "closed"

\* raise from the function: t the class, o the origin, a the statement
Raise(t, o, a) ==
    /\ exc' = Exc(t, o, a)
    /\ pc' = "raised"

\* lines 34-38
Parse ==
    /\ pc = "parse"
    /\ IF StrptimeRaises(start_date_str)
         THEN Raise("ValueError", "validation", "format") /\ UNCHANGED <<start, end>>
         ELSE IF StrptimeRaises(end_date_str)
           THEN /\ Raise("ValueError", "validation", "format")
                /\ start' = Strptime(start_date_str)
                /\ UNCHANGED end
           ELSE /\ start' = Strptime(start_date_str)
                /\ end' = Strptime(end_date_str)
                /\ pc' = "check_order"
                /\ UNCHANGED exc
    /\ UNCHANGED <<entry, start_date_str, end_date_str, output_file, current, fs, f,
                   opens, header, rows, shang_zhong_xia, l_month, is_hol, is_work,
                   name, hol_name, calls, console>>

\* lines 40-41
CheckOrder ==
    /\ pc = "check_order"
    /\ IF DateGT(start, end)
         THEN Raise("ValueError", "validation", "order")
         ELSE pc' = "validate" /\ UNCHANGED exc
    /\ UNCHANGED <<entry, start_date_str, end_date_str, output_file, start, end, current,
                   fs, f, opens, header, rows, shang_zhong_xia, l_month, is_hol, is_work,
                   name, hol_name, calls, console>>

\* "and" written for "or"
validate_date_range_and(s, e) ==
    s.year < CHINESE_CALENDAR_MIN_YEAR /\ e.year > CHINESE_CALENDAR_MAX_YEAR

\* lines 16-22: TRUE when validate_date_range raises
validate_date_range(s, e) ==
    s.year < CHINESE_CALENDAR_MIN_YEAR \/ e.year > CHINESE_CALENDAR_MAX_YEAR

\* the output directory made before the range check
ValidateAfterMakedirs ==
    /\ pc = "validate"
    /\ fs' = Makedirs(fs, Dirname(output_file))
    /\ IF validate_date_range(start, end)
         THEN Raise("ValueError", "validation", "range")
         ELSE pc' = "makedirs" /\ UNCHANGED exc
    /\ UNCHANGED <<entry, start_date_str, end_date_str, output_file, start, end, current,
                   f, opens, header, rows, shang_zhong_xia, l_month, is_hol, is_work,
                   name, hol_name, calls, console>>

\* line 44
Validate ==
    /\ pc = "validate"
    /\ IF validate_date_range(start, end)
         THEN Raise("ValueError", "validation", "range")
         ELSE pc' = "makedirs" /\ UNCHANGED exc
    /\ UNCHANGED <<entry, start_date_str, end_date_str, output_file, start, end, current,
                   fs, f, opens, header, rows, shang_zhong_xia, l_month, is_hol, is_work,
                   name, hol_name, calls, console>>

\* line 57
MakeOutputDir ==
    /\ pc = "makedirs"
    /\ IF MakedirsRaises(Dirname(output_file))
         THEN Raise("FileNotFoundError", "generation", "makedirs") /\ UNCHANGED fs
         ELSE /\ fs' = Makedirs(fs, Dirname(output_file))
              /\ pc' = "open"
              /\ UNCHANGED exc
    /\ UNCHANGED <<entry, start_date_str, end_date_str, output_file, start, end, current,
                   f, opens, header, rows, shang_zhong_xia, l_month, is_hol, is_work,
                   name, hol_name, calls, console>>

\* line 59: open succeeds
OpenFile ==
    /\ pc = "open"
    /\ f' = "open"
    /\ opens' = opens + 1
    /\ pc' = "writeheader"
    /\ UNCHANGED <<entry, start_date_str, end_date_str, output_file, start, end, current,
                   fs, header, rows, shang_zhong_xia, l_month, is_hol, is_work,
                   name, hol_name, exc, calls, console>>

\* line 59: open fails (the destination cannot be created)
OpenFails ==
    /\ pc = "open"
    /\ Raise("OSError", "generation", "open")
    /\ UNCHANGED <<entry, start_date_str, end_date_str, output_file, start, end, current,
                   fs, f, opens, header, rows, shang_zhong_xia, l_month, is_hol, is_work,
                   name, hol_name, calls, console>>

\* lines 60-63: header written, cursor set to start
WriteHeader ==
    /\ pc = "writeheader"
    /\ header' = TRUE
    /\ current' = start
    /\ pc' = "while"
    /\ UNCHANGED <<entry, start_date_str, end_date_str, output_file, start, end,
                   fs, f, opens, rows, shang_zhong_xia, l_month, is_hol, is_work,
                   name, hol_name, exc, calls, console>>

\* line 61: writing the header fails
WriteHeaderFails ==
    /\ pc = "writeheader"
    /\ Raise("OSError", "generation", "writeheader")
    /\ f' = WithExit(f)
    /\ UNCHANGED <<entry, start_date_str, end_date_str, output_file, start, end, current,
                   fs, opens, header, rows, shang_zhong_xia, l_month, is_hol, is_work,
                   name, hol_name, calls, console>>

\* a loop that stops one day early
LoopCondStrict(cur, e) == DateLE(cur, e) /\ cur # e

\* line 64: current <= end
LoopCond(cur, e) == DateLE(cur, e)

\* line 64, condition true
WhileEnter ==
    /\ pc = "while"
    /\ LoopCond(current, end)
    /\ pc' = "gregorian"
    /\ UNCHANGED <<entry, start_date_str, end_date_str, output_file, start, end, current,
                   fs, f, opens, header, rows, shang_zhong_xia, l_month, is_hol, is_work,
                   name, hol_name, exc, calls, console>>

\* line 64, condition false: the with-block ends and the file is closed
WhileExit ==
    /\ pc = "while"
    /\ ~LoopCond(current, end)
    /\ f' = WithExit(f)
    /\ pc' = "print"
    /\ UNCHANGED <<entry, start_date_str, end_date_str, output_file, start, end, current,
                   fs, opens, header, rows, shang_zhong_xia, l_month, is_hol, is_work,
                   name, hol_name, exc, calls, console>>

\* lines 66-78
Gregorian ==
    /\ pc = "gregorian"
    /\ shang_zhong_xia' = Xun(current.day)
    /\ pc' = "lunar"
    /\ UNCHANGED <<entry, start_date_str, end_date_str, output_file, start, end, current,
                   fs, f, opens, header, rows, l_month, is_hol, is_work,
                   name, hol_name, exc, calls, console>>

\* lines 81-104: the lunar provider answers
Lunar ==
    /\ pc = "lunar"
    /\ \E m \in LunarMonths : l_month' = m
    /\ calls' = calls + 1
    /\ pc' = "holiday"
    /\ UNCHANGED <<entry, start_date_str, end_date_str, output_file, start, end, current,
                   fs, f, opens, header, rows, shang_zhong_xia, is_hol, is_work,
                   name, hol_name, exc, console>>

\* the provider's exception swallowed and the day skipped
LunarRaisesSwallowed ==
    /\ pc = "lunar"
    /\ calls' = calls + 1
    /\ pc' = "advance"
    /\ UNCHANGED <<entry, start_date_str, end_date_str, output_file, start, end, current,
                   fs, f, opens, header, rows, shang_zhong_xia, l_month, is_hol, is_work,
                   name, hol_name, exc, console>>

\* lines 81-104: the lunar provider raises
LunarRaises ==
    /\ pc = "lunar"
    /\ \E t \in ProviderExcTypes : Raise(t, "generation", "lunar")
    /\ calls' = calls + 1
    /\ f' = WithExit(f)
    /\ UNCHANGED <<entry, start_date_str, end_date_str, output_file, start, end, current,
                   fs, opens, header, rows, shang_zhong_xia, l_month, is_hol, is_work,
                   name, hol_name, console>>

\* lines 107-115: the holiday provider answers
Holiday ==
    /\ pc = "holiday"
    /\ \E h \in BOOLEAN :
         /\ is_hol' = h
         /\ IF h
              THEN /\ is_work' = IsWorkOf(h, FALSE)
                   /\ \E n \in HolidayNames : name' = n /\ hol_name' = HolNameOf(n)
              ELSE /\ \E w \in BOOLEAN : is_work' = IsWorkOf(h, w)
                   /\ hol_name' = ""
                   /\ UNCHANGED name
    /\ calls' = calls + 1
    /\ pc' = "writerow"
    /\ UNCHANGED <<entry, start_date_str, end_date_str, output_file, start, end, current,
                   fs, f, opens, header, rows, shang_zhong_xia, l_month, exc, console>>

\* lines 107-115: is_holiday, is_workday or get_holiday_detail raises
HolidayRaises ==
    /\ pc = "holiday"
    /\ \E t \in ProviderExcTypes : Raise(t, "generation", "holiday")
    /\ calls' = calls + 1
    /\ f' = WithExit(f)
    /\ UNCHANGED <<entry, start_date_str, end_date_str, output_file, start, end, current,
                   fs, opens, header, rows, shang_zhong_xia, l_month, is_hol, is_work,
                   name, hol_name, console>>

\* lines 118-137
WriteRow ==
    /\ pc = "writerow"
    /\ rows' = Append(rows, Row(current, shang_zhong_xia, l_month, is_hol, is_work, hol_name))
    /\ pc' = "advance"
    /\ UNCHANGED <<entry, start_date_str, end_date_str, output_file, start, end, current,
                   fs, f, opens, header, shang_zhong_xia, l_month, is_hol, is_work,
                   name, hol_name, exc, calls, console>>

\* line 137: writerow fails
WriteRowFails ==
    /\ pc = "writerow"
    /\ \E t \in WriteExcTypes : Raise(t, "generation", "writerow")
    /\ f' = WithExit(f)
    /\ UNCHANGED <<entry, start_date_str, end_date_str, output_file, start, end, current,
                   fs, opens, header, rows, shang_zhong_xia, l_month, is_hol, is_work,
                   name, hol_name, calls, console>>

\* line 139
Advance ==
    /\ pc = "advance"
    /\ current' = NextDay(current)
    /\ pc' = "while"
    /\ UNCHANGED <<entry, start_date_str, end_date_str, output_file, start, end,
                   fs, f, opens, header, rows, shang_zhong_xia, l_month, is_hol, is_work,
                   name, hol_name, exc, calls, console>>

\* line 141
PrintSuccess ==
    /\ pc = "print"
    /\ console' = Append(console, "success")
    /\ pc' = "returned"
    /\ UNCHANGED <<entry, start_date_str, end_date_str, output_file, start, end, current,
                   fs, f, opens, header, rows, shang_zhong_xia, l_month, is_hol, is_work,
                   name, hol_name, exc, calls>>

-----------------------------------------------------------------------------
(* __main__ *)

\* lines 171-174: which except clause takes the exception
HandlerMessage(t) == IF IsValueError(t) THEN "input_error" ELSE "run_error"

\* lines 171-174
Handler ==
    /\ pc = "raised"
    /\ entry = "main"
    /\ console' = Append(console, HandlerMessage(exc.type))
    /\ pc' = "handled"
    /\ UNCHANGED <<entry, start_date_str, end_date_str, output_file, start, end, current,
                   fs, f, opens, header, rows, shang_zhong_xia, l_month, is_hol, is_work,
                   name, hol_name, exc, calls>>

-----------------------------------------------------------------------------

Next ==
    \/ Parse \/ CheckOrder \/ Validate
    \/ MakeOutputDir \/ OpenFile \/ OpenFails
    \/ WriteHeader \/ WriteHeaderFails
    \/ WhileEnter \/ WhileExit \/ Gregorian
    \/ Lunar \/ LunarRaises \/ Holiday \/ HolidayRaises
    \/ WriteRow \/ WriteRowFails \/ Advance
    \/ PrintSuccess \/ Handler

Spec == Init /\ [][Next]_vars

\* the interpreter always runs the next statement
FairSpec == Spec /\ WF_vars(Next)

\* the run is over: returned, handled by __main__, or raised to the importing caller
Terminal ==
    \/ pc \in {"returned", "handled"}
    \/ pc = "raised" /\ entry = "direct"

-----------------------------------------------------------------------------
(* Reference arithmetic used to state the properties: day numbers *)

DaysBeforeYear(y) == (y - 1) * 365 + ((y - 1) \div 4) - ((y - 1) \div 100) + ((y - 1) \div 400)

RECURSIVE DaysBeforeMonth(_, _)
DaysBeforeMonth(y, m) == IF m <= 1 THEN 0 ELSE DaysBeforeMonth(y, m - 1) + DaysInMonth(y, m - 1)

\* the proleptic Gregorian ordinal of a date, January 1 of year 1 being day 1
ToOrdinal(d) == DaysBeforeYear(d.year) + DaysBeforeMonth(d.year, d.month) + d.day

\* the date column of a row, read back as a day number
RowOrdinal(r) == ToOrdinal([year |-> r.date.y, month |-> r.date.m, day |-> r.date.d])

\* the rows are exactly the n consecutive days that begin at start, in order
RowsAreDaysFromStart(n) ==
    /\ Len(rows) = n
    /\ \A i \in 1..Len(rows) :
         /\ rows[i].date.sep = "-"
         /\ RowOrdinal(rows[i]) = ToOrdinal(start) + i - 1

LastRow == rows[Len(rows)]

ValidationPcs == {"parse", "check_order", "validate"}

LoopFailures == {"lunar", "holiday", "writerow"}

-----------------------------------------------------------------------------
(* Properties *)

\* C1: when the call returns without any failure, the data rows are exactly
\* the days start, start+1, ..., end in written order (one per day, so their
\* number is end - start + 1), and the loop, once entered, always ends.
C1_OneRowPerDay ==
    /\ [](pc = "returned" => RowsAreDaysFromStart(ToOrdinal(end) - ToOrdinal(start) + 1))
    /\ [](pc \in {"while", "gregorian", "lunar", "holiday", "writerow", "advance"}
            => ToOrdinal(current) <= ToOrdinal(end) + 1)
    /\ ((pc = "while") ~> (pc \in {"print", "raised"}))

C1_Witness ==
    /\ pc = "returned"
    /\ Len(rows) = 3
    /\ rows[2].date = DateStr(2004, 2, 29, "-")

\* C2 (as stated): every row of a day the provider reports as a holiday has
\* is-workday "no" and a non-empty holiday name.
C2_HolidayNameNonEmpty ==
    (pc = "advance" /\ is_hol) => (LastRow.is_workday = "fou" /\ LastRow.hol_name # "")

\* C2 (amended): every row of a day the provider reports as a holiday has
\* is-workday "no", and its holiday name is the name get_holiday_detail
\* returned when that is a non-empty string, the empty string otherwise.
C2_HolidayRow ==
    (pc = "advance" /\ is_hol) =>
        /\ LastRow.is_holiday = "shi"
        /\ LastRow.is_workday = "fou"
        /\ (name \notin {NoneName, ""} => LastRow.hol_name = name)
        /\ (name \in {NoneName, ""} => LastRow.hol_name = "")

C2_Witness ==
    /\ pc = "advance"
    /\ is_hol
    /\ name = NoneName
    /\ LastRow.hol_name = ""

\* C3: once both dates are parsed and validation is over, the outcome is the
\* order error iff start > end, else the range error iff start.year < 2004 or
\* end.year > 2030, else acceptance; so generation begins only with
\* start <= end and both years within 2004..2030.
C3_ValidationOutcome ==
    (pc \notin ValidationPcs /\ exc.at # "format") =>
        /\ (exc.at = "order") <=> (ToOrdinal(start) > ToOrdinal(end))
        /\ (exc.at = "range") <=>
              /\ ToOrdinal(start) <= ToOrdinal(end)
              /\ (start.year < 2004 \/ end.year > 2030)
        /\ (exc.origin # "validation") =>
              /\ ToOrdinal(start) <= ToOrdinal(end)
              /\ start.year \in 2004..2030
              /\ end.year \in 2004..2030

C3_Witness ==
    /\ exc.at = "range"
    /\ start.year = 2030
    /\ end.year = 2031

\* C4: a call that ends with a validation error has opened and written no
\* file, called no provider and printed no success message, and no step up to
\* and after the validation error creates a directory.
C4_ValidationBeforeEffects ==
    /\ [](exc.origin = "validation" =>
            /\ f = "unopened" /\ opens = 0 /\ ~header /\ rows = <<>>
            /\ calls = 0
            /\ \A i \in 1..Len(console) : console[i] # "success")
    /\ [][(pc \in ValidationPcs \/ exc.origin = "validation") => fs' = fs]_vars

C4_Witness ==
    /\ pc = "handled"
    /\ exc.at = "range"
    /\ fs = {}
    /\ console = <<"input_error">>

\* C5: the row written for a signed lunar month m (never 0) holds |m| as a
\* positive lunar month and leap-month "yes" exactly when m < 0.
C5_LunarMonthPositive ==
    /\ \A i \in 1..Len(rows) : rows[i].lunar_month > 0
    /\ (pc = "advance") =>
          /\ LastRow.lunar_month * LastRow.lunar_month = l_month * l_month
          /\ (LastRow.is_leap = "shi") <=> (l_month < 0)
          /\ LastRow.is_leap \in {"shi", "fou"}

C5_Witness ==
    /\ pc = "advance"
    /\ l_month < 0
    /\ LastRow.is_leap = "shi"

\* C6 (as stated): a validated call never fails at creating the output
\* directory, whatever the path, and the file is opened with its directory
\* in place.
C6_DirectoryThenOpen ==
    /\ exc.at # "makedirs"
    /\ (opens > 0 => (Dirname(output_file) = <<>> \/ Dirname(output_file) \in fs))

\* C7: every row's decade label is "early" iff its day is 1..10, "mid" iff
\* 11..20, "late" iff 21 or more; the last day of a month is "late".
C7_Decade ==
    \A i \in 1..Len(rows) :
        LET d == rows[i].date.d IN
        /\ d \in 1..31
        /\ d = rows[i].g_day
        /\ (rows[i].xun = "shangxun") <=> (d \in 1..10)
        /\ (rows[i].xun = "zhongxun") <=> (d \in 11..20)
        /\ (rows[i].xun = "xiaxun") <=> (d >= 21)
        /\ (d = DaysInMonth(rows[i].date.y, rows[i].date.m)) => rows[i].xun = "xiaxun"

C7_Witness ==
    /\ Len(rows) = 2
    /\ rows[1].date = DateStr(2025, 1, 10, "-") /\ rows[1].xun = "shangxun"
    /\ rows[2].date = DateStr(2025, 1, 11, "-") /\ rows[2].xun = "zhongxun"

\* C8: the file is opened at most once, and whenever the function has
\* returned or raised, the file is not open.
C8_FileClosedOnExit ==
    /\ opens <= 1
    /\ (pc \in {"print", "returned", "raised", "handled"}) => f # "open"
    /\ (pc \in {"print", "returned"}) => f = "closed"
    /\ (f = "unopened") <=> (opens = 0)

C8_Witness ==
    /\ pc = "raised"
    /\ exc.at = "holiday"
    /\ opens = 1
    /\ f = "closed"
    /\ Len(rows) = 1

\* C9 (as stated): a failure that is not a validation failure is reported by
\* __main__ with the generic run-error message.
C9_GenerationErrorIsGeneric ==
    (pc = "handled" /\ exc.origin = "generation") => console = <<"run_error">>

====
